---- MODULE Spec2Model ----
(***************************************************************************)
(* A model of gofile-downloader.py: the transfer engine                    *)
(* (Main._download_content), the worker pool (Main._threaded_downloads),   *)
(* the content-tree resolver (Main._parse_links_recursively) and the run   *)
(* driver (Main.run, Main._parse_url_or_file, Main._download).             *)
(*                                                                         *)
(* Sizes are counted in chunks.  A filename is a record                    *)
(* [stem, sfx, ext]: sfx is the sequence of " (<id8>)" suffixes that have  *)
(* been appended to the stem, so "a (p1).txt" is                           *)
(* [stem |-> "a", sfx |-> <<"p1">>, ext |-> ".txt"].  A remote id is a     *)
(* pair <<first 8 characters, rest>>.  A path is a sequence of names.      *)
(***************************************************************************)
EXTENDS Integers, Sequences, FiniteSets, TLC

VARIABLES
    files_info,             \* self._files_info, in insertion order
    recursive_files_index,  \* self._recursive_files_index
    content_dir,            \* self._content_dir (<<>> is None)
    stack,                  \* active _parse_links_recursively frames
    rpc,                    \* position of the resolver
    disk,                   \* files on disk: key -> size
    dirs,                   \* directories on disk
    stop,                   \* self._stop_event
    max_workers,            \* self._max_workers
    mpc,                    \* position of the main thread
    pass,                   \* i of Main.run's loop
    input,                  \* url_or_file, and the locals of _parse_url_or_file
    nsub,                   \* number of futures submitted
    task,                   \* state of each future
    dl,                     \* locals of each _download_content invocation
    nfetch,                 \* node fetches made by the current resolution
    remote,                 \* the remote tree as the API has listed it so far
    rpos,                   \* how much of it the current resolution has listed
    budget,                 \* what the servers may still do: see Budget
    prev                    \* what the previous pass resolved and returned

resVars  == <<files_info, recursive_files_index, content_dir, stack, rpc, nfetch,
              remote, rpos>>
fsVars   == <<disk, dirs>>
poolVars == <<mpc, nsub, task>>
vars     == <<files_info, recursive_files_index, content_dir, stack, rpc, nfetch,
              remote, rpos, disk, dirs, stop, max_workers, mpc, pass, input, nsub, task, dl, budget,
              prev>>

---------------------------------------------------------------------------
(* Bounds of the model *)

\* true size of every remote file, in chunks
TotalChunks == 2
\* max_workers given to Main, when the pool is started on a record list
MaxWorkers == 2
\* max_workers given to Main, when a whole run is made
RunWorkers == 1
\* failing responses of a whole run
RunFaults == 3
\* failing responses the servers give in all when several records are downloaded
PoolFaults == 1
\* records and node fetches of one resolution, when the resolver runs alone
ResolveFiles == 3
ResolveFetches == 3
\* nesting of the remote folders, the root included
MaxDepth == 2
\* URL lines of the input file, when a run is made on a file
MaxLines == 2
\* records and failing responses of the pool whose termination is checked
LiveRecords == 2
LiveFaults == 1
\* failing responses of a run made on a file
LineFaults == 3

---------------------------------------------------------------------------
(* Program constants *)

max_link_refreshes == 2
max_retries_per_link == 3

NoLink == "None"
Links == {"L0", "L1"}

RootDir == <<"Videos">>
SinglesDir == <<"Singles">>

---------------------------------------------------------------------------
(* File system *)

FileKey(path, filename) == <<path, filename, "file">>

\* file_path.with_suffix(f"{file_path.suffix}.part")
PartKey(path, filename) == <<path, filename, "part">>

Exists(d, k) == k \in DOMAIN d

SizeOf(d, k) == IF k \in DOMAIN d THEN d[k] ELSE 0

Put(d, k, v) == [x \in DOMAIN d \cup {k} |-> IF x = k THEN v ELSE d[x]]

Del(d, k) == [x \in DOMAIN d \ {k} |-> d[x]]

---------------------------------------------------------------------------
(* Transfer engine: Main._download_content, one invocation per record i *)

\* the records handed to the pool
Records == DOMAIN task

FilePath(i) == FileKey(files_info[i].path, files_info[i].filename)

TmpFile(i) == PartKey(files_info[i].path, files_info[i].filename)

\* the locals of an invocation that has not started
IdleLocals ==
    [pc |-> "idle", refresh_attempt |-> 0, attempt |-> 0,
     last_error_type |-> "NONE", current_url |-> NoLink, part_size |-> 0,
     status_code |-> 0, total_size |-> 0, recv |-> 0, result |-> "NONE",
     \* observations: the requests made, the marker found at entry, the range
     \* the first request asked for
     nreq |-> 0, nref |-> 0, nlink |-> 0, p0 |-> -1, first_range |-> -1]

\* what a server may answer to a file request; status 0 is an exception
Responses ==
    [kind : {"http"}, status : {200, 206}, has_size : BOOLEAN]
    \cup [kind : {"http"}, status : {416, 404, 503, 500}, has_size : {FALSE}]
    \cup [kind : {"timeout", "error"}, status : {0}, has_size : {FALSE}]

\* the error type recorded for a status code
ErrorType(status_code, last_error_type) ==
    IF status_code \in {403, 404, 410, 451} THEN "FATAL"
    ELSE IF status_code \in {502, 503, 504} THEN "TRANSIENT"
    ELSE IF status_code # 200 /\ status_code # 206 THEN "UNKNOWN"
    ELSE last_error_type

\* the status check without its clause for a resumed transfer
RejectedNoResumeClause(status_code, part_size) ==
    \/ status_code \in {403, 404, 405, 410, 451, 500, 502, 503, 504}
    \/ (part_size = 0 /\ status_code # 200)

\* the statuses that end the attempt
Rejected(status_code, part_size) ==
    \/ status_code \in {403, 404, 405, 410, 451, 500, 502, 503, 504}
    \/ (part_size = 0 /\ status_code # 200)
    \/ (part_size > 0 /\ status_code # 206)

\* a response that starts a stream
Streams(r, part_size) ==
    /\ r.kind = "http"
    /\ r.status # 416
    /\ ~Rejected(r.status, part_size)
    /\ r.has_size

\* return <res>: the locals are gone, the observations stay
Fin(d, res) ==
    [IdleLocals EXCEPT !.pc = "done", !.result = res, !.nreq = d.nreq,
                       !.nref = d.nref, !.nlink = d.nlink, !.p0 = d.p0,
                       !.first_range = d.first_range]

\* the inner loop is over: the next iteration of the outer loop, or its end
EndLink(d) ==
    IF d.refresh_attempt < max_link_refreshes
    THEN [d EXCEPT !.pc = "refresh", !.refresh_attempt = @ + 1]
    ELSE Fin(d, "FAILED")

\* the inner loop with one iteration more
NextAttemptOneMore(d) ==
    IF d.attempt <= max_retries_per_link
    THEN [d EXCEPT !.pc = "attempt", !.attempt = @ + 1]
    ELSE EndLink(d)

\* continue: the next iteration of the inner loop, or its end
NextAttempt(d) ==
    IF d.attempt < max_retries_per_link
    THEN [d EXCEPT !.pc = "attempt", !.attempt = @ + 1]
    ELSE EndLink(d)

\* the end of the inner loop's body, reached from the except clauses
AfterException(d) ==
    IF d.attempt < max_retries_per_link
    THEN [d EXCEPT !.pc = "backoff"]
    ELSE EndLink(d)

\* the inner loop starts on the current link
StartLink(d) ==
    [d EXCEPT !.pc = "attempt", !.attempt = 1, !.last_error_type = "NONE",
              !.nlink = 0]

\* no bound on the failing responses
Unlimited == 0 - 1

\* url_or_file and the locals of _parse_url_or_file: whether it names a file,
\* the number of its lines, the lines gone through, any_success
Input(is_file, lines) ==
    [is_file |-> is_file, lines |-> lines, line |-> 0, any_success |-> FALSE]

\* url_or_file is a URL
UrlInput == Input(FALSE, 0)

CanFail(cost) == budget.faults = Unlimited \/ cost <= budget.faults

\* the environment's bounds: failing responses left, records and node fetches
\* of one resolution
Budget(faults, files, fetches) ==
    [faults |-> faults, files |-> files, fetches |-> fetches]

\* the invocation's new locals and the new disk
Step(i, d2, disk2, cost) ==
    /\ dl' = [dl EXCEPT ![i] = d2]
    /\ task' = IF d2.pc = "done" THEN [task EXCEPT ![i] = "done"] ELSE task
    /\ disk' = disk2
    /\ budget' = IF budget.faults = Unlimited THEN budget
                  ELSE [budget EXCEPT !.faults = @ - cost]
    /\ UNCHANGED <<resVars, dirs, stop, max_workers, mpc, pass, input, nsub, prev>>

\* the entry without the stop check
DcEntryNoStopCheck(i) ==
    /\ task[i] = "running"
    /\ dl[i].pc = "entry"
    /\ LET d == dl[i] IN
       IF Exists(disk, FilePath(i)) /\ disk[FilePath(i)] > 0
       THEN Step(i, Fin(d, "SKIPPED"), disk, 0)
       ELSE Step(i, StartLink([d EXCEPT
                    !.current_url = files_info[i].link,
                    !.p0 = IF Exists(disk, TmpFile(i))
                           THEN disk[TmpFile(i)] ELSE -1]), disk, 0)

\* the entry without the pre-check
DcEntryNoPreCheck(i) ==
    /\ task[i] = "running"
    /\ dl[i].pc = "entry"
    /\ LET d == dl[i] IN
       IF stop THEN Step(i, Fin(d, "FAILED"), disk, 0)
       ELSE Step(i, StartLink([d EXCEPT
                    !.current_url = files_info[i].link,
                    !.p0 = IF Exists(disk, TmpFile(i))
                           THEN disk[TmpFile(i)] ELSE -1]), disk, 0)

\* the stop check and the pre-check
DcEntry(i) ==
    /\ task[i] = "running"
    /\ dl[i].pc = "entry"
    /\ LET d == dl[i] IN
       IF stop THEN Step(i, Fin(d, "FAILED"), disk, 0)
       ELSE IF Exists(disk, FilePath(i)) /\ disk[FilePath(i)] > 0
       THEN Step(i, Fin(d, "SKIPPED"), disk, 0)
       ELSE Step(i, StartLink([d EXCEPT
                    !.current_url = files_info[i].link,
                    !.p0 = IF Exists(disk, TmpFile(i))
                           THEN disk[TmpFile(i)] ELSE -1]), disk, 0)

\* a refresh that cools down on an identical link whatever the error type
DcRefreshAlwaysCools(i, new_link) ==
    /\ task[i] = "running"
    /\ dl[i].pc = "refresh"
    /\ LET d == [dl[i] EXCEPT !.nref = @ + 1] IN
       IF new_link = NoLink THEN Step(i, Fin(d, "FAILED"), disk, 0)
       ELSE IF new_link = d.current_url
       THEN Step(i, [d EXCEPT !.pc = "cooldown"], disk, 0)
       ELSE Step(i, StartLink([d EXCEPT !.current_url = new_link]), disk, 0)

\* a refresh that goes on with the old link when it is given another
DcRefreshKeepsLink(i, new_link) ==
    /\ task[i] = "running"
    /\ dl[i].pc = "refresh"
    /\ LET d == [dl[i] EXCEPT !.nref = @ + 1] IN
       IF new_link = NoLink THEN Step(i, Fin(d, "FAILED"), disk, 0)
       ELSE IF new_link = d.current_url
       THEN IF d.last_error_type = "TRANSIENT"
            THEN Step(i, [d EXCEPT !.pc = "cooldown"], disk, 0)
            ELSE Step(i, Fin(d, "FAILED"), disk, 0)
       ELSE Step(i, StartLink(d), disk, 0)

\* the head of the outer loop for refresh_attempt > 0, when
\* _get_fresh_download_link returns new_link
DcRefreshWith(i, new_link) ==
    /\ task[i] = "running"
    /\ dl[i].pc = "refresh"
    /\ LET d == [dl[i] EXCEPT !.nref = @ + 1] IN
       IF new_link = NoLink THEN Step(i, Fin(d, "FAILED"), disk, 0)
       ELSE IF new_link = d.current_url
       THEN IF d.last_error_type = "TRANSIENT"
            THEN Step(i, [d EXCEPT !.pc = "cooldown"], disk, 0)
            ELSE Step(i, Fin(d, "FAILED"), disk, 0)
       ELSE Step(i, StartLink([d EXCEPT !.current_url = new_link]), disk, 0)

\* the head of the outer loop for refresh_attempt > 0
DcRefresh(i) == \E new_link \in Links \cup {NoLink} : DcRefreshWith(i, new_link)

\* a cool-down whose wait has no timeout: it returns only when the flag is set
DcCooldownNoTimeout(i) ==
    /\ task[i] = "running"
    /\ dl[i].pc = "cooldown"
    /\ stop
    /\ Step(i, Fin(dl[i], "FAILED"), disk, 0)

\* self._stop_event.wait(cool_down) returns
DcCooldown(i) ==
    /\ task[i] = "running"
    /\ dl[i].pc = "cooldown"
    /\ IF stop THEN Step(i, Fin(dl[i], "FAILED"), disk, 0)
       ELSE Step(i, StartLink(dl[i]), disk, 0)

\* the head of the inner loop's body: the marker is read, the request sent
DcRequest(i) ==
    /\ task[i] = "running"
    /\ dl[i].pc = "attempt"
    /\ LET ps == IF Exists(disk, TmpFile(i)) THEN disk[TmpFile(i)] ELSE 0
           rg == IF ps > 0 THEN ps ELSE -1
           d  == dl[i]
       IN Step(i, [d EXCEPT !.pc = "inflight", !.part_size = ps,
                            !.nreq = @ + 1, !.nlink = @ + 1,
                            !.first_range = IF d.nreq = 0 THEN rg ELSE @],
               disk, 0)

\* a response handling that records UNKNOWN for a 200 without a size
DcResponseFaultyUnknown(i, r) ==
    /\ task[i] = "running"
    /\ dl[i].pc = "inflight"
    /\ LET d0 == dl[i]
           cost == IF Streams(r, d0.part_size) THEN 0 ELSE 1
       IN
       /\ CanFail(cost)
       /\ IF r.kind = "timeout"
          THEN Step(i, AfterException([d0 EXCEPT !.last_error_type = "TRANSIENT"]),
                    disk, cost)
          ELSE IF r.kind = "error"
          THEN Step(i, AfterException([d0 EXCEPT !.last_error_type = "UNKNOWN"]),
                    disk, cost)
          ELSE LET d == [d0 EXCEPT !.status_code = r.status] IN
          IF r.status = 416
          THEN Step(i, [d EXCEPT !.pc = "wait416"], Del(disk, TmpFile(i)), cost)
          ELSE LET e == [d EXCEPT !.last_error_type =
                                      ErrorType(r.status, d.last_error_type)] IN
          IF Rejected(r.status, d.part_size)
          THEN Step(i, NextAttempt(e), disk, cost)
          ELSE IF ~r.has_size
          THEN Step(i, NextAttempt([e EXCEPT !.last_error_type = "UNKNOWN"]),
                    disk, cost)
          ELSE Step(i, [e EXCEPT !.pc = "stream",
                                 !.total_size = TotalChunks, !.recv = 0],
                    IF Exists(disk, TmpFile(i)) THEN disk
                    ELSE Put(disk, TmpFile(i), 0), cost)

\* a response handling whose 416 branch leaves the marker on disk
DcResponseKeepsMarker(i, r) ==
    /\ task[i] = "running"
    /\ dl[i].pc = "inflight"
    /\ LET d0 == dl[i]
           cost == IF Streams(r, d0.part_size) THEN 0 ELSE 1
       IN
       /\ CanFail(cost)
       /\ IF r.kind = "timeout"
          THEN Step(i, AfterException([d0 EXCEPT !.last_error_type = "TRANSIENT"]),
                    disk, cost)
          ELSE IF r.kind = "error"
          THEN Step(i, AfterException([d0 EXCEPT !.last_error_type = "UNKNOWN"]),
                    disk, cost)
          ELSE LET d == [d0 EXCEPT !.status_code = r.status] IN
          IF r.status = 416
          THEN Step(i, [d EXCEPT !.pc = "wait416"], disk, cost)
          ELSE LET e == [d EXCEPT !.last_error_type =
                                      ErrorType(r.status, d.last_error_type)] IN
          IF Rejected(r.status, d.part_size)
          THEN Step(i, NextAttempt(e), disk, cost)
          ELSE IF ~r.has_size /\ r.status = 200
          THEN Step(i, AfterException([e EXCEPT !.last_error_type = "TRANSIENT"]),
                    disk, cost)
          ELSE IF ~r.has_size
          THEN Step(i, NextAttempt([e EXCEPT !.last_error_type = "UNKNOWN"]),
                    disk, cost)
          ELSE Step(i, [e EXCEPT !.pc = "stream",
                                 !.total_size = TotalChunks, !.recv = 0],
                    IF Exists(disk, TmpFile(i)) THEN disk
                    ELSE Put(disk, TmpFile(i), 0), cost)

\* the response r of the request, up to the opening of the marker
DcResponseWith(i, r) ==
    /\ task[i] = "running"
    /\ dl[i].pc = "inflight"
    /\ LET d0 == dl[i]
           cost == IF Streams(r, d0.part_size) THEN 0 ELSE 1
       IN
       /\ CanFail(cost)
       /\ IF r.kind = "timeout"
          THEN Step(i, AfterException([d0 EXCEPT !.last_error_type = "TRANSIENT"]),
                    disk, cost)
          ELSE IF r.kind = "error"
          THEN Step(i, AfterException([d0 EXCEPT !.last_error_type = "UNKNOWN"]),
                    disk, cost)
          ELSE LET d == [d0 EXCEPT !.status_code = r.status] IN
          IF r.status = 416
          THEN Step(i, [d EXCEPT !.pc = "wait416"], Del(disk, TmpFile(i)), cost)
          ELSE LET e == [d EXCEPT !.last_error_type =
                                      ErrorType(r.status, d.last_error_type)] IN
          IF Rejected(r.status, d.part_size)
          THEN Step(i, NextAttempt(e), disk, cost)
          ELSE IF ~r.has_size /\ r.status = 200
          THEN Step(i, AfterException([e EXCEPT !.last_error_type = "TRANSIENT"]),
                    disk, cost)
          ELSE IF ~r.has_size
          THEN Step(i, NextAttempt([e EXCEPT !.last_error_type = "UNKNOWN"]),
                    disk, cost)
          ELSE Step(i, [e EXCEPT !.pc = "stream",
                                 !.total_size = TotalChunks, !.recv = 0],
                    IF Exists(disk, TmpFile(i)) THEN disk
                    ELSE Put(disk, TmpFile(i), 0), cost)

\* the response of the request, up to the opening of the marker
DcResponse(i) == \E r \in Responses : DcResponseWith(i, r)

\* self._stop_event.wait(1) after a 416 returns
DcWait416(i) ==
    /\ task[i] = "running"
    /\ dl[i].pc = "wait416"
    /\ IF stop THEN Step(i, Fin(dl[i], "FAILED"), disk, 0)
       ELSE Step(i, NextAttempt(dl[i]), disk, 0)

\* a backoff that sleeps without looking at the flag
DcBackoffSleep(i) ==
    /\ task[i] = "running"
    /\ dl[i].pc = "backoff"
    /\ Step(i, NextAttempt(dl[i]), disk, 0)

\* self._stop_event.wait(2 ** attempt) returns
DcBackoff(i) ==
    /\ task[i] = "running"
    /\ dl[i].pc = "backoff"
    /\ IF stop THEN Step(i, Fin(dl[i], "FAILED"), disk, 0)
       ELSE Step(i, NextAttempt(dl[i]), disk, 0)

\* chunks the server can still send: the file's bytes from the offset of a
\* 206, all of them for a 200
Deliverable(d) ==
    LET offset == IF d.status_code = 206 THEN d.part_size ELSE 0 IN
    IF TotalChunks > offset + d.recv
    THEN TotalChunks - offset - d.recv ELSE 0

\* a chunk loop that writes the chunk, then looks at the flag
DcChunkWriteFirst(i) ==
    /\ task[i] = "running"
    /\ dl[i].pc = "stream"
    /\ Deliverable(dl[i]) > 0
    /\ LET written == IF Exists(disk, TmpFile(i))
                      THEN Put(disk, TmpFile(i), disk[TmpFile(i)] + 1)
                      ELSE disk
       IN IF stop THEN Step(i, Fin(dl[i], "FAILED"), written, 0)
          ELSE Step(i, [dl[i] EXCEPT !.recv = @ + 1], written, 0)

\* one iteration of the chunk loop: the stop check, then the write
DcChunk(i) ==
    /\ task[i] = "running"
    /\ dl[i].pc = "stream"
    /\ Deliverable(dl[i]) > 0
    /\ IF stop THEN Step(i, Fin(dl[i], "FAILED"), disk, 0)
       ELSE Step(i, [dl[i] EXCEPT !.recv = @ + 1],
                 IF Exists(disk, TmpFile(i))
                 THEN Put(disk, TmpFile(i), disk[TmpFile(i)] + 1)
                 ELSE disk, 0)

\* the end of the stream without the size check
DcStreamEndUnverified(i) ==
    /\ task[i] = "running"
    /\ dl[i].pc = "stream"
    /\ LET d == dl[i]
           cost == IF Deliverable(d) > 0 THEN 1 ELSE 0
       IN
       /\ CanFail(cost)
       /\ IF ~Exists(disk, TmpFile(i))
          THEN Step(i, AfterException([d EXCEPT !.last_error_type = "UNKNOWN"]),
                    disk, cost)
          ELSE Step(i, Fin(d, "DOWNLOADED"),
                    Put(Del(disk, TmpFile(i)), FilePath(i), disk[TmpFile(i)]),
                    cost)

\* the stream ends: the size check, the move
DcStreamEnd(i) ==
    /\ task[i] = "running"
    /\ dl[i].pc = "stream"
    /\ LET d == dl[i]
           cost == IF Deliverable(d) > 0 THEN 1 ELSE 0
       IN
       /\ CanFail(cost)
       /\ IF ~Exists(disk, TmpFile(i))
          THEN Step(i, AfterException([d EXCEPT !.last_error_type = "UNKNOWN"]),
                    disk, cost)
          ELSE IF disk[TmpFile(i)] = d.total_size
          THEN Step(i, Fin(d, "DOWNLOADED"),
                    Put(Del(disk, TmpFile(i)), FilePath(i), disk[TmpFile(i)]),
                    cost)
          ELSE Step(i, NextAttempt([d EXCEPT !.last_error_type = "TRANSIENT"]),
                    disk, cost)

\* the stream raises: a read timeout, or another exception
DcStreamError(i) ==
    /\ task[i] = "running"
    /\ dl[i].pc = "stream"
    /\ CanFail(1)
    /\ \E e \in {"TRANSIENT", "UNKNOWN"} :
        Step(i, AfterException([dl[i] EXCEPT !.last_error_type = e]), disk, 1)

Engine ==
    \/ \E i \in Records : DcEntry(i)
    \/ \E i \in Records : DcRefresh(i)
    \/ \E i \in Records : DcCooldown(i)
    \/ \E i \in Records : DcRequest(i)
    \/ \E i \in Records : DcResponse(i)
    \/ \E i \in Records : DcWait416(i)
    \/ \E i \in Records : DcBackoff(i)
    \/ \E i \in Records : DcChunk(i)
    \/ \E i \in Records : DcStreamEnd(i)
    \/ \E i \in Records : DcStreamError(i)

---------------------------------------------------------------------------
(* Worker pool: Main._threaded_downloads *)

Running == {i \in Records : task[i] = "running"}

Queued == {i \in Records : task[i] = "queued"}

\* the loop that submits one future per record
TdSubmit ==
    /\ mpc = "submit"
    /\ IF nsub < Len(files_info) /\ ~stop
       THEN /\ task' = [task EXCEPT ![nsub + 1] = "queued"]
            /\ nsub' = nsub + 1
            /\ mpc' = mpc
       ELSE /\ mpc' = "poll"
            /\ UNCHANGED <<task, nsub>>
    /\ UNCHANGED <<resVars, fsVars, stop, max_workers, pass, input, dl, budget, prev>>

\* an executor that starts a thread for every future
TdDispatchUnbounded(i) ==
    /\ task[i] = "queued"
    /\ \A j \in Queued : i <= j
    /\ task' = [task EXCEPT ![i] = "running"]
    /\ dl' = [dl EXCEPT ![i] = [IdleLocals EXCEPT !.pc = "entry"]]
    /\ UNCHANGED <<resVars, fsVars, stop, max_workers, mpc, pass, input, nsub, budget, prev>>

\* a worker thread of the executor takes the oldest queued future
TdDispatch(i) ==
    /\ task[i] = "queued"
    /\ \A j \in Queued : i <= j
    /\ Cardinality(Running) < max_workers
    /\ task' = [task EXCEPT ![i] = "running"]
    /\ dl' = [dl EXCEPT ![i] = [IdleLocals EXCEPT !.pc = "entry"]]
    /\ UNCHANGED <<resVars, fsVars, stop, max_workers, mpc, pass, input, nsub, budget, prev>>

\* the polling loop ends: every future is done, or the flag is seen set
TdPoll ==
    /\ mpc = "poll"
    /\ (stop \/ \A i \in 1..nsub : task[i] \in {"done", "cancelled"})
    /\ mpc' = "shutdown"
    /\ UNCHANGED <<resVars, fsVars, stop, max_workers, pass, input, nsub, task, dl, budget, prev>>

\* KeyboardInterrupt in the main thread: caught in the try block only
TdInterrupt ==
    /\ mpc \notin {"exit", "escaped"}
    /\ IF mpc = "poll"
       THEN stop' = TRUE /\ mpc' = "shutdown"
       ELSE stop' = stop /\ mpc' = "escaped"
    /\ UNCHANGED <<resVars, fsVars, max_workers, pass, input, nsub, task, dl, budget, prev>>

\* finally: executor.shutdown, cancelling the queued futures if the flag is set
TdShutdown ==
    /\ mpc = "shutdown"
    /\ task' = IF stop
               THEN [i \in Records |->
                        IF task[i] = "queued" THEN "cancelled" ELSE task[i]]
               ELSE task
    /\ mpc' = "join"
    /\ UNCHANGED <<resVars, fsVars, stop, max_workers, pass, input, nsub, dl, budget, prev>>

\* a shutdown that does not wait for the worker threads
TdJoinNoWait ==
    /\ mpc = "join"
    /\ mpc' = "returned"
    /\ UNCHANGED <<resVars, fsVars, stop, max_workers, pass, input, nsub, task, dl, budget, prev>>

\* shutdown(wait=True) returns: the worker threads have ended
TdJoin ==
    /\ mpc = "join"
    /\ Running = {}
    /\ Queued = {}
    /\ mpc' = "returned"
    /\ UNCHANGED <<resVars, fsVars, stop, max_workers, pass, input, nsub, task, dl, budget, prev>>

Pool ==
    \/ TdSubmit
    \/ \E i \in Records : TdDispatch(i)
    \/ TdPoll
    \/ TdInterrupt
    \/ TdShutdown
    \/ TdJoin

---------------------------------------------------------------------------
(* The pool started on a resolved record list *)

Nm(stem, ext) == [stem |-> stem, sfx |-> <<>>, ext |-> ext]

ContentDir == RootDir \o <<"cid">>

StemOf(i) == IF i = 1 THEN "a" ELSE IF i = 2 THEN "b" ELSE IF i = 3 THEN "c" ELSE "d"

\* n records with distinct names, as a resolution leaves them
PoolRecords(n) ==
    [i \in 1..n |->
        [path |-> ContentDir, filename |-> Nm(StemOf(i), ".txt"),
         link |-> "L0", id |-> <<"p1", i>>, index |-> i,
         \* observations: the name and the path the record was found with
         orig |-> Nm(StemOf(i), ".txt"), rpath |-> ContentDir]]

\* what an earlier run may have left of each record: <<kind, size>>
Leftovers(n) ==
    IF n = 1
    THEN {<<"none", 0>>, <<"file", TotalChunks>>, <<"file", 0>>}
         \cup {<<"part", p>> : p \in 0..(TotalChunks + 1)}
    ELSE {<<"none", 0>>, <<"file", TotalChunks>>, <<"part", 1>>}

DiskOf(recs, left) ==
    LET keys == {<<recs[i].path, recs[i].filename, left[i][1]>> :
                     i \in {j \in DOMAIN recs : left[j][1] # "none"}}
        idx(k) == CHOOSE i \in DOMAIN recs : k[2] = recs[i].filename
    IN [k \in keys |-> left[idx(k)][2]]

\* the pool is started on n records, with what an earlier run left of them,
\* a number of workers and a number of failing responses
PoolInit(n, left, workers, faults) ==
    /\ files_info = PoolRecords(n)
    /\ recursive_files_index = n
    /\ content_dir = ContentDir
    /\ stack = <<>>
    /\ rpc = "done"
    /\ disk = DiskOf(PoolRecords(n), left)
    /\ dirs = {RootDir, ContentDir}
    /\ stop = FALSE
    /\ max_workers = workers
    /\ mpc = "submit"
    /\ pass = 1
    /\ input = UrlInput
    /\ nsub = 0
    /\ task = [i \in 1..n |-> "none"]
    /\ dl = [i \in 1..n |-> IdleLocals]
    /\ nfetch = 0
    /\ remote = <<>>
    /\ rpos = 0
    /\ budget = Budget(faults, n, 0)
    /\ prev = <<>>

InitPool ==
    \E n \in {1, MaxWorkers + 1} :
    \E left \in [1..n -> Leftovers(n)] :
        PoolInit(n, left, MaxWorkers, IF n = 1 THEN Unlimited ELSE PoolFaults)

NextPool == Pool \/ Engine

Spec == InitPool /\ [][NextPool]_vars

\* the steps the main thread takes by itself
MainThread == TdSubmit \/ TdPoll \/ TdShutdown \/ TdJoin

\* one record without a marker or with a marker of one chunk, and any number
\* of failing responses; or LiveRecords records without file or marker, and
\* LiveFaults failing responses
InitLive ==
    \/ \E left \in [1..1 -> {<<"none", 0>>, <<"part", 1>>}] :
          PoolInit(1, left, MaxWorkers, Unlimited)
    \/ PoolInit(LiveRecords, [i \in 1..LiveRecords |-> <<"none", 0>>],
                RunWorkers, LiveFaults)

\* the pool and the engine with their scheduling: a worker thread that can
\* take a step takes one, responses and waits end, the executor hands a
\* queued future to a free worker, the main thread goes on; an interrupt may
\* never come
SpecLive ==
    /\ InitLive
    /\ [][NextPool]_vars
    /\ WF_vars(Engine)
    /\ WF_vars(\E i \in Records : TdDispatch(i))
    /\ WF_vars(MainThread)

---------------------------------------------------------------------------
(* Content-tree resolver: Main._parse_links_recursively.  The remote tree  *)
(* is the environment's: each step the API lists the next child of the     *)
(* folder being listed.  What it has listed is kept in <remote>, a         *)
(* depth-first sequence of tokens, and a later resolution of the same      *)
(* content id lists the same tree again, except where a fetch fails.       *)

\* names the API gives to files: "a.txt" and "a (p1).txt"
FileNames == {Nm("a", ".txt"), [stem |-> "a", sfx |-> <<"p1">>, ext |-> ".txt"]}

\* names the API gives to folders; "cid" is also the content id
FolderNames == {"cid", "d"}

\* first 8 characters of the remote ids
IdPrefixes == {"p1", "p2"}

\* how a node fetch may fail
FetchFailures == {"error", "notok", "password"}

FileToken(name, pre) == [t |-> "file", name |-> name, pre |-> pre]

DirToken(name) == [t |-> "dir", name |-> Nm(name, ""), pre |-> ""]

\* a folder whose fetch fails every time
LostToken == [t |-> "lost", name |-> Nm("", ""), pre |-> ""]

EndToken == [t |-> "end", name |-> Nm("", ""), pre |-> ""]

FileTokens == {FileToken(name, pre) : name \in FileNames, pre \in IdPrefixes}

DirTokens == {DirToken(name) : name \in FolderNames}

\* the tree is being listed for the first time
Fresh == rpos = Len(remote)

\* the tokens among <all> the API may list next
Offered(all) == IF Fresh THEN all ELSE {remote[rpos + 1]} \cap all

\* the end of the folder whose token is at p
MatchEnd(p) ==
    LET open(q) == Cardinality({k \in p..q : remote[k].t = "dir"})
                   - Cardinality({k \in p..q : remote[k].t = "end"})
    IN CHOOSE q \in (p + 1)..Len(remote) :
           open(q) = 0 /\ \A r \in (p + 1)..(q - 1) : open(r) > 0

\* the token is listed
Listed(tok) ==
    /\ remote' = IF Fresh THEN Append(remote, tok) ELSE remote
    /\ rpos' = rpos + 1

\* the fetch of the next folder fails: its subtree is not listed
NotListed ==
    /\ remote' = IF Fresh THEN Append(remote, LostToken) ELSE remote
    /\ rpos' = IF Fresh \/ remote[rpos + 1].t = "lost" THEN rpos + 1
               ELSE MatchEnd(rpos + 1)

\* item['id'][:8]
Id8(id) == id[1]

\* p_filename.with_stem(f"{p_filename.stem} ({item['id'][:8]})").name
WithIdSuffix(filename, id) == [filename EXCEPT !.sfx = Append(@, Id8(id))]

\* filename_count[filename]
FilenameCount(fi, filename) ==
    Cardinality({i \in DOMAIN fi : fi[i].filename = filename})

\* a deduplication that spares the first record of each filename
DedupAfterFirst(fi) ==
    [i \in DOMAIN fi |->
        IF \E j \in 1..(i - 1) : fi[j].filename = fi[i].filename
        THEN [fi[i] EXCEPT !.filename = WithIdSuffix(@, fi[i].id)]
        ELSE fi[i]]

\* the two loops that end _parse_links_recursively
Dedup(fi) ==
    [i \in DOMAIN fi |->
        IF FilenameCount(fi, fi[i].filename) > 1
        THEN [fi[i] EXCEPT !.filename = WithIdSuffix(@, fi[i].id)]
        ELSE fi[i]]

\* self._files_info[str(self._recursive_files_index)] = {...}
NewRecord(path, name, pre, index) ==
    [path |-> path, filename |-> name, link |-> "L0", id |-> <<pre, index>>,
     \* the record's key in self._files_info
     index |-> index,
     orig |-> name, rpath |-> path]

\* current_path.name
LastName(path) == path[Len(path)]

\* the directory a folder named <name> is listed into
FolderPath(current_path, name) ==
    IF name = LastName(current_path) THEN current_path
    ELSE Append(current_path, name)

\* the call for the content id itself
PlrRoot ==
    /\ mpc = "resolve"
    /\ rpc = "root"
    /\ nfetch' = nfetch + 1
    /\ \/ /\ IF Fresh THEN TRUE ELSE remote[rpos + 1].t \in {"dir", "lost"}
          /\ \E f \in FetchFailures : NotListed
          /\ rpc' = "done"
          /\ UNCHANGED <<files_info, recursive_files_index, stack, dirs>>
       \/ \E tok \in Offered(DirTokens) :
            /\ Listed(tok)
            /\ stack' = <<FolderPath(content_dir, tok.name.stem)>>
            /\ dirs' = dirs \cup {FolderPath(content_dir, tok.name.stem)}
            /\ rpc' = "walk"
            /\ UNCHANGED <<files_info, recursive_files_index>>
       \/ \E tok \in Offered(FileTokens) :
            /\ Fresh => budget.files >= 1
            /\ Listed(tok)
            /\ recursive_files_index' = recursive_files_index + 1
            /\ files_info' = Dedup(Append(files_info,
                   NewRecord(content_dir, tok.name, tok.pre,
                             recursive_files_index + 1)))
            /\ rpc' = "done"
            /\ UNCHANGED <<stack, dirs>>
    /\ UNCHANGED <<content_dir, disk, stop, max_workers, mpc, pass, input, nsub, task,
                   dl, budget, prev>>

\* a recursive call whose failed fetch ends the whole resolution
PlrFolderAbort ==
    /\ mpc = "resolve"
    /\ rpc = "walk"
    /\ Fresh => nfetch < budget.fetches
    /\ nfetch' = nfetch + 1
    /\ \/ /\ IF Fresh THEN TRUE ELSE remote[rpos + 1].t \in {"dir", "lost"}
          /\ \E f \in FetchFailures : NotListed
          /\ stack' = <<>>
          /\ rpc' = "done"
          /\ UNCHANGED dirs
       \/ \E tok \in Offered(DirTokens) :
            /\ Fresh => Len(stack) < MaxDepth
            /\ Listed(tok)
            /\ stack' = Append(stack, FolderPath(stack[Len(stack)], tok.name.stem))
            /\ dirs' = dirs \cup {FolderPath(stack[Len(stack)], tok.name.stem)}
            /\ rpc' = rpc
    /\ UNCHANGED <<files_info, recursive_files_index, content_dir,
                   disk, stop, max_workers, mpc, pass, input, nsub, task, dl, budget, prev>>

\* a recursive call that does not create the sub-folder's directory
PlrFolderNoMkdir ==
    /\ mpc = "resolve"
    /\ rpc = "walk"
    /\ Fresh => nfetch < budget.fetches
    /\ nfetch' = nfetch + 1
    /\ \/ /\ IF Fresh THEN TRUE ELSE remote[rpos + 1].t \in {"dir", "lost"}
          /\ \E f \in FetchFailures : NotListed
          /\ UNCHANGED <<stack, dirs>>
       \/ \E tok \in Offered(DirTokens) :
            /\ Fresh => Len(stack) < MaxDepth
            /\ Listed(tok)
            /\ stack' = Append(stack, FolderPath(stack[Len(stack)], tok.name.stem))
            /\ dirs' = dirs
    /\ UNCHANGED <<files_info, recursive_files_index, content_dir, rpc,
                   disk, stop, max_workers, mpc, pass, input, nsub, task, dl, budget, prev>>

\* the next child is a folder: the recursive call, up to its loop over the children
PlrFolder ==
    /\ mpc = "resolve"
    /\ rpc = "walk"
    /\ Fresh => nfetch < budget.fetches
    /\ nfetch' = nfetch + 1
    /\ \/ /\ IF Fresh THEN TRUE ELSE remote[rpos + 1].t \in {"dir", "lost"}
          /\ \E f \in FetchFailures : NotListed
          /\ UNCHANGED <<stack, dirs>>
       \/ \E tok \in Offered(DirTokens) :
            /\ Fresh => Len(stack) < MaxDepth
            /\ Listed(tok)
            /\ stack' = Append(stack, FolderPath(stack[Len(stack)], tok.name.stem))
            /\ dirs' = dirs \cup {FolderPath(stack[Len(stack)], tok.name.stem)}
    /\ UNCHANGED <<files_info, recursive_files_index, content_dir, rpc,
                   disk, stop, max_workers, mpc, pass, input, nsub, task, dl, budget, prev>>

\* a file child recorded without the counter being advanced
PlrFileKeepsCounter ==
    /\ mpc = "resolve"
    /\ rpc = "walk"
    /\ Fresh => Len(files_info) < budget.files
    /\ \E tok \in Offered(FileTokens) :
        /\ Listed(tok)
        /\ recursive_files_index' = recursive_files_index
        /\ files_info' = Append(files_info,
               NewRecord(stack[Len(stack)], tok.name, tok.pre,
                         recursive_files_index + 1))
    /\ UNCHANGED <<content_dir, stack, rpc, nfetch, fsVars, stop, max_workers,
                   mpc, pass, input, nsub, task, dl, budget, prev>>

\* the next child is a file
PlrFile ==
    /\ mpc = "resolve"
    /\ rpc = "walk"
    /\ Fresh => Len(files_info) < budget.files
    /\ \E tok \in Offered(FileTokens) :
        /\ Listed(tok)
        /\ recursive_files_index' = recursive_files_index + 1
        /\ files_info' = Append(files_info,
               NewRecord(stack[Len(stack)], tok.name, tok.pre,
                         recursive_files_index + 1))
    /\ UNCHANGED <<content_dir, stack, rpc, nfetch, fsVars, stop, max_workers,
                   mpc, pass, input, nsub, task, dl, budget, prev>>

\* no child is left: the filenames are deduplicated and the call returns
PlrReturn ==
    /\ mpc = "resolve"
    /\ rpc = "walk"
    /\ \E tok \in Offered({EndToken}) : Listed(tok)
    /\ files_info' = Dedup(files_info)
    /\ stack' = SubSeq(stack, 1, Len(stack) - 1)
    /\ rpc' = IF Len(stack) = 1 THEN "done" ELSE "walk"
    /\ UNCHANGED <<recursive_files_index, content_dir, nfetch, fsVars, stop,
                   max_workers, mpc, pass, input, nsub, task, dl, budget, prev>>

Resolver == PlrRoot \/ PlrFolder \/ PlrFile \/ PlrReturn

InitResolve ==
    /\ files_info = <<>>
    /\ recursive_files_index = 0
    /\ content_dir = ContentDir
    /\ stack = <<>>
    /\ rpc = "root"
    /\ nfetch = 0
    /\ remote = <<>>
    /\ rpos = 0
    /\ disk = <<>>
    /\ dirs = {RootDir, ContentDir}
    /\ stop = FALSE
    /\ max_workers = MaxWorkers
    /\ mpc = "resolve"
    /\ pass = 1
    /\ input = UrlInput
    /\ nsub = 0
    /\ task = <<>>
    /\ dl = <<>>
    /\ budget = Budget(0, ResolveFiles, ResolveFetches)
    /\ prev = <<>>

SpecResolve == InitResolve /\ [][Resolver]_vars

---------------------------------------------------------------------------
(* Run driver: Main.run, Main._parse_url_or_file and Main._download for    *)
(* one content URL                                                         *)

MAX_PASSES == 2

IsUnder(path, root) ==
    Len(path) >= Len(root) /\ SubSeq(path, 1, Len(root)) = root

\* shutil.rmtree(root)
RmTreeDisk(d, root) == [k \in {x \in DOMAIN d : ~IsUnder(x[1], root)} |-> d[k]]

RmTreeDirs(ds, root) == {p \in ds : ~IsUnder(p, root)}

\* a redirection that keeps the filename
RedirectedSameName(item, d) == [item EXCEPT !.path = SinglesDir]

\* the record of a single-file tree, redirected to the Singles folder
Redirected(item, d) ==
    [item EXCEPT !.path = SinglesDir,
                 !.filename = IF Exists(d, FileKey(SinglesDir, item.filename))
                              THEN WithIdSuffix(@, item.id) ELSE @]

\* the head of run's loop, up to the call of _parse_url_or_file
RunPass ==
    /\ mpc = "run"
    /\ IF pass > MAX_PASSES \/ stop
       THEN /\ mpc' = "exit"
            /\ input' = input
       ELSE /\ mpc' = "parse"
            /\ input' = [input EXCEPT !.line = 0, !.any_success = FALSE]
    /\ UNCHANGED <<resVars, fsVars, stop, max_workers, pass, nsub, task, dl,
                   budget, prev>>

\* _download up to the resolution
DownloadStarts ==
    /\ content_dir' = ContentDir
    /\ dirs' = dirs \cup {ContentDir}
    /\ rpc' = "root"
    /\ nfetch' = 0
    /\ rpos' = 0
    /\ mpc' = "resolve"
    /\ pass' = pass

\* the tail of run's loop, _parse_url_or_file having returned <success>
RunTail(success) ==
    /\ mpc' = IF (pass = 1 /\ ~success) \/ stop THEN "exit" ELSE "run"
    /\ pass' = pass + 1

\* _parse_url_or_file without the stop check of its loop
PuLineNoStopCheck ==
    /\ mpc = "parse"
    /\ IF input.is_file /\ input.line = input.lines
       THEN /\ RunTail(input.any_success)
            /\ input' = input
            /\ UNCHANGED <<content_dir, rpc, nfetch, rpos, dirs>>
       ELSE /\ input' = [input EXCEPT !.line = @ + 1]
            /\ DownloadStarts
    /\ UNCHANGED <<files_info, recursive_files_index, stack, remote, disk, stop,
                   max_workers, nsub, task, dl, budget, prev>>

\* _parse_url_or_file: the URL is downloaded, or the next line of the file
\* is, unless the flag is set or no line is left
PuLine ==
    /\ mpc = "parse"
    /\ IF input.is_file /\ (stop \/ input.line = input.lines)
       THEN /\ RunTail(input.any_success)
            /\ input' = input
            /\ UNCHANGED <<content_dir, rpc, nfetch, rpos, dirs>>
       ELSE /\ input' = [input EXCEPT !.line = @ + 1]
            /\ DownloadStarts
    /\ UNCHANGED <<files_info, recursive_files_index, stack, remote, disk, stop,
                   max_workers, nsub, task, dl, budget, prev>>

\* _download returns <success> to _parse_url_or_file, which returns it to
\* run, or goes on with its loop
DownloadReturns(success) ==
    IF input.is_file
    THEN /\ mpc' = "parse"
         /\ pass' = pass
         /\ input' = [input EXCEPT !.any_success = @ \/ success]
    ELSE /\ RunTail(success)
         /\ input' = input

\* what a pass resolved and what its transfers returned
Summary ==
    [i \in DOMAIN files_info |->
        [orig |-> files_info[i].orig, id |-> files_info[i].id,
         rpath |-> files_info[i].rpath,
         result |-> IF i \in DOMAIN dl THEN dl[i].result ELSE "NONE"]]

\* _download after the resolution: nothing found, or the pool is started
DlResolved ==
    /\ mpc = "resolve"
    /\ rpc = "done"
    /\ IF Len(files_info) = 0
       THEN /\ disk' = RmTreeDisk(disk, content_dir)
            /\ dirs' = RmTreeDirs(dirs, content_dir)
            /\ content_dir' = <<>>
            /\ recursive_files_index' = 0
            /\ files_info' = <<>>
            /\ DownloadReturns(FALSE)
            /\ prev' = <<>>
            /\ UNCHANGED <<nsub, task, dl>>
       ELSE /\ IF Len(files_info) = 1
               THEN /\ files_info' = <<Redirected(files_info[1], disk)>>
                    /\ disk' = RmTreeDisk(disk, content_dir)
                    /\ dirs' = RmTreeDirs(dirs, content_dir) \cup {SinglesDir}
               ELSE UNCHANGED <<files_info, disk, dirs>>
            /\ mpc' = "submit"
            /\ nsub' = 0
            /\ task' = [i \in DOMAIN files_info |-> "none"]
            /\ dl' = [i \in DOMAIN files_info |-> IdleLocals]
            /\ UNCHANGED <<content_dir, recursive_files_index, pass, input, prev>>
    /\ UNCHANGED <<stack, rpc, nfetch, remote, rpos, stop, max_workers, budget>>

\* _download after the pool, and the tail of run's loop
DlReturn ==
    /\ mpc = "returned"
    /\ prev' = Summary
    /\ content_dir' = <<>>
    /\ recursive_files_index' = 0
    /\ files_info' = <<>>
    /\ task' = <<>>
    /\ dl' = <<>>
    /\ nsub' = 0
    /\ DownloadReturns(TRUE)
    /\ UNCHANGED <<stack, rpc, nfetch, remote, rpos, fsVars, stop, max_workers,
                   budget>>

Driver == RunPass \/ PuLine \/ DlResolved \/ DlReturn

\* the remote trees of the runs: one file; two files of one name in a folder
\* named as the content id, with ids that differ or not in their first 8
\* characters; a file in a folder and one in a folder inside it
RunTrees ==
    {<<FileToken(Nm("a", ".txt"), "p1")>>,
     <<DirToken("cid"), FileToken(Nm("a", ".txt"), "p1"),
       FileToken(Nm("a", ".txt"), "p2"), EndToken>>,
     <<DirToken("cid"), FileToken(Nm("a", ".txt"), "p1"),
       FileToken(Nm("a", ".txt"), "p1"), EndToken>>,
     <<DirToken("d"), FileToken(Nm("a", ".txt"), "p1"), DirToken("cid"),
       FileToken([stem |-> "a", sfx |-> <<"p1">>, ext |-> ".txt"], "p2"),
       EndToken, EndToken>>}

\* a run starts: the Singles folder may hold a file of an earlier run, whole
\* or empty
InitRun ==
    /\ files_info = <<>>
    /\ recursive_files_index = 0
    /\ content_dir = <<>>
    /\ stack = <<>>
    /\ rpc = "idle"
    /\ nfetch = 0
    /\ remote \in RunTrees
    /\ rpos = 0
    /\ \E had \in {"none", "whole", "empty"} :
        disk = IF had = "none" THEN <<>>
               ELSE Put(<<>>, FileKey(SinglesDir, Nm("a", ".txt")),
                        IF had = "whole" THEN TotalChunks ELSE 0)
    /\ dirs = {RootDir}
    /\ stop = FALSE
    /\ max_workers = RunWorkers
    /\ mpc = "run"
    /\ pass = 1
    /\ input = UrlInput
    /\ nsub = 0
    /\ task = <<>>
    /\ dl = <<>>
    /\ budget = Budget(RunFaults, 0, 0)
    /\ prev = <<>>

NextRun == Driver \/ Resolver \/ Pool \/ Engine

SpecRun == InitRun /\ [][NextRun]_vars

\* a run starts on a file of URL lines, each naming the same content id
InitLines ==
    /\ files_info = <<>>
    /\ recursive_files_index = 0
    /\ content_dir = <<>>
    /\ stack = <<>>
    /\ rpc = "idle"
    /\ nfetch = 0
    /\ remote \in RunTrees
    /\ rpos = 0
    /\ disk = <<>>
    /\ dirs = {RootDir}
    /\ stop = FALSE
    /\ max_workers = RunWorkers
    /\ mpc = "run"
    /\ pass = 1
    /\ input \in {Input(TRUE, n) : n \in 0..MaxLines}
    /\ nsub = 0
    /\ task = <<>>
    /\ dl = <<>>
    /\ budget = Budget(LineFaults, 0, 0)
    /\ prev = <<>>

SpecLines == InitLines /\ [][NextRun]_vars

---------------------------------------------------------------------------
(* Properties of the transfer engine and of the pool, under Spec *)

\* the record's invocation found a marker of P chunks, 0 < P < T, at entry
Resumed(i) == dl[i].p0 > 0 /\ dl[i].p0 < TotalChunks

\* C2  Resume correctness: an invocation that starts on a marker of P chunks,
\* 0 < P < T, asks in its first request for the range starting at P, streams
\* the answer to that request only if it is a 206, and, when it returns
\* DOWNLOADED, leaves a final file of exactly T chunks and no marker.
C2_ResumeCorrect ==
    \A i \in Records :
        Resumed(i) =>
            /\ dl[i].nreq >= 1 => dl[i].first_range = dl[i].p0
            /\ (dl[i].pc = "stream" /\ dl[i].nreq = 1) => dl[i].status_code = 206
            /\ dl[i].result = "DOWNLOADED" =>
                   /\ Exists(disk, FilePath(i))
                   /\ disk[FilePath(i)] = TotalChunks
                   /\ ~Exists(disk, TmpFile(i))

\* a resumed transfer that ended DOWNLOADED on its first request
C2_Witness ==
    \E i \in Records :
        /\ Resumed(i)
        /\ dl[i].result = "DOWNLOADED"
        /\ dl[i].nreq = 1
        /\ disk[FilePath(i)] = TotalChunks

\* C5  Failover bound: one invocation asks for a fresh link at most 2 times,
\* sends at most 3 file requests between two of them, and at most 9 file
\* requests in all.
C5_FailoverBound ==
    \A i \in Records :
        /\ dl[i].nref <= 2
        /\ dl[i].nlink <= 3
        /\ dl[i].nreq <= 9

\* an invocation that returned FAILED after 2 refreshes and 9 requests
C5_Witness ==
    \E i \in Records :
        /\ dl[i].result = "FAILED"
        /\ dl[i].nref = 2
        /\ dl[i].nreq = 9

\* the record's transfer has not started: not submitted, queued, or at the
\* entry of its invocation
NotStarted(i) ==
    \/ task[i] \in {"none", "queued"}
    \/ (task[i] = "running" /\ dl[i].pc = "entry")

\* C6  Cancellation, no new file: with the stop flag set, a step leaves a record
\* whose transfer has not started without a request made and with its marker
\* and its final file as they were, and the record is then still not started,
\* cancelled, or returned FAILED.
C6_NoNewFile ==
    [][\A i \in Records :
          (stop /\ NotStarted(i)) =>
              /\ dl'[i].nreq = 0
              /\ dl'[i].nref = 0
              /\ Exists(disk', TmpFile(i)) = Exists(disk, TmpFile(i))
              /\ SizeOf(disk', TmpFile(i)) = SizeOf(disk, TmpFile(i))
              /\ Exists(disk', FilePath(i)) = Exists(disk, FilePath(i))
              /\ SizeOf(disk', FilePath(i)) = SizeOf(disk, FilePath(i))
              /\ \/ NotStarted(i)'
                 \/ task'[i] = "cancelled"
                 \/ (task'[i] = "done" /\ dl'[i].result = "FAILED")]_vars

\* the flag is set, a queued record was cancelled and another returned FAILED
\* at its entry
C6_Witness ==
    /\ stop
    /\ \E i \in Records : task[i] = "cancelled"
    /\ \E i \in Records :
        /\ task[i] = "done"
        /\ dl[i].result = "FAILED"
        /\ dl[i].nreq = 0

\* C7  Cancellation preserves partial data: with the stop flag set, no step
\* deletes a marker or makes it smaller, whatever the response in flight; a
\* complete marker may become the final file.
C7_MarkerPreserved ==
    [][stop =>
          \A k \in DOMAIN disk :
              k[3] = "part" =>
                  \/ (k \in DOMAIN disk' /\ disk'[k] >= disk[k])
                  \/ /\ FileKey(k[1], k[2]) \in DOMAIN disk'
                     /\ disk'[FileKey(k[1], k[2])] = disk[k]]_vars

\* the record's invocation is at its entry and its final file has bytes
AtEntryOnFile(i) ==
    /\ task[i] = "running"
    /\ dl[i].pc = "entry"
    /\ Exists(disk, FilePath(i))
    /\ disk[FilePath(i)] > 0

\* C8  Pre-check, as stated: an invocation for a record whose final file exists
\* with size > 0 returns SKIPPED without a file request or a link refresh, in
\* every state.
C8_AlwaysSkipped ==
    [][\A i \in Records :
          (AtEntryOnFile(i) /\ dl'[i].pc # "entry") =>
              /\ dl'[i].pc = "done"
              /\ dl'[i].result = "SKIPPED"
              /\ dl'[i].nreq = 0
              /\ dl'[i].nref = 0]_vars

\* C8  Pre-check, as the code has it: such an invocation returns without a file
\* request or a link refresh; it returns SKIPPED unless the stop flag is set at
\* its entry, and FAILED if it is.
C8_SkippedUnlessStopped ==
    [][\A i \in Records :
          (AtEntryOnFile(i) /\ dl'[i].pc # "entry") =>
              /\ dl'[i].pc = "done"
              /\ dl'[i].result = IF stop THEN "FAILED" ELSE "SKIPPED"
              /\ dl'[i].nreq = 0
              /\ dl'[i].nref = 0
              /\ disk' = disk]_vars

\* an invocation returned SKIPPED on an existing file
C8_Witness ==
    \E i \in Records :
        /\ dl[i].result = "SKIPPED"
        /\ dl[i].nreq = 0
        /\ Exists(disk, FilePath(i))
        /\ disk[FilePath(i)] > 0

\* the record's stream is over and its marker has not the expected size
Mismatched(i) ==
    /\ task[i] = "running"
    /\ dl[i].pc = "stream"
    /\ Exists(disk, TmpFile(i))
    /\ disk[TmpFile(i)] # dl[i].total_size

\* a DOWNLOADED return comes from a marker of the expected size, moved to the
\* final name
VerifiedMove(i) ==
    dl'[i].result = "DOWNLOADED" =>
        /\ dl[i].pc = "stream"
        /\ Exists(disk, TmpFile(i))
        /\ disk[TmpFile(i)] = dl[i].total_size
        /\ ~Exists(disk', TmpFile(i))
        /\ Exists(disk', FilePath(i))
        /\ disk'[FilePath(i)] = dl[i].total_size

\* a final file appears or changes only by such a move
FinalFilesVerified ==
    \A k \in DOMAIN disk' :
        (k[3] = "file" /\ (k \notin DOMAIN disk \/ disk'[k] # disk[k])) =>
            \E i \in Records :
                /\ k = FilePath(i)
                /\ dl[i].pc = "stream"
                /\ dl'[i].result = "DOWNLOADED"
                /\ disk'[k] = dl[i].total_size
                /\ disk[TmpFile(i)] = dl[i].total_size

\* C9  Verified completion, as stated: DOWNLOADED is returned, and the marker
\* moved, only when the marker has the expected size, every final file the
\* engine writes has that size, and a size mismatch is recorded as TRANSIENT
\* and followed by another attempt on the same link.
C9_MismatchRetriesSameLink ==
    [][/\ \A i \in Records : dl[i].result # "DOWNLOADED" => VerifiedMove(i)
       /\ FinalFilesVerified
       /\ \A i \in Records :
            (Mismatched(i) /\ DcStreamEnd(i)) =>
                /\ dl'[i].last_error_type = "TRANSIENT"
                /\ dl'[i].pc = "attempt"
                /\ dl'[i].current_url = dl[i].current_url
                /\ dl'[i].refresh_attempt = dl[i].refresh_attempt]_vars

\* C9  Verified completion, as the code has it: the same, but a size mismatch
\* is followed by another attempt on the same link only if fewer than 3 were
\* made on it; after the third the link is given up, for a fresh link or for
\* FAILED.  The marker is kept in both cases.
C9_VerifiedCompletion ==
    [][/\ \A i \in Records : dl[i].result # "DOWNLOADED" => VerifiedMove(i)
       /\ FinalFilesVerified
       /\ \A i \in Records :
            (Mismatched(i) /\ DcStreamEnd(i)) =>
                /\ disk' = disk
                /\ IF dl[i].attempt < 3
                   THEN /\ dl'[i].last_error_type = "TRANSIENT"
                        /\ dl'[i].pc = "attempt"
                        /\ dl'[i].attempt = dl[i].attempt + 1
                        /\ dl'[i].current_url = dl[i].current_url
                        /\ dl'[i].refresh_attempt = dl[i].refresh_attempt
                   ELSE \/ /\ dl'[i].pc = "refresh"
                           /\ dl'[i].last_error_type = "TRANSIENT"
                        \/ /\ dl'[i].pc = "done"
                           /\ dl'[i].result = "FAILED"]_vars

\* a transfer that met a size mismatch, was tried again on the same link and
\* returned DOWNLOADED with a final file of the expected size
C9_Witness ==
    \E i \in Records :
        /\ dl[i].result = "DOWNLOADED"
        /\ dl[i].nreq >= 2
        /\ dl[i].nref = 0
        /\ disk[FilePath(i)] = TotalChunks
        /\ ~Exists(disk, TmpFile(i))

\* C10  Concurrency bound: never more than max_workers invocations are active,
\* and a record is queued once and started once: one that has returned or was
\* cancelled is never queued or started again.
C10_ConcurrencyBound ==
    /\ [](Cardinality(Running) <= max_workers)
    /\ [][\A i \in Records :
            /\ task'[i] = "queued" => task[i] \in {"none", "queued"}
            /\ task'[i] = "running" => task[i] \in {"queued", "running"}
            /\ task[i] \in {"done", "cancelled"} => task'[i] = task[i]]_vars

\* every worker is busy and a record waits in the queue
C10_Witness ==
    /\ Cardinality(Running) = max_workers
    /\ Queued # {}

---------------------------------------------------------------------------
(* Properties of the resolver, under SpecResolve *)

\* the records found with the name record i was found with
SameName(i) ==
    {j \in DOMAIN files_info : files_info[j].orig = files_info[i].orig}

Renamed(i) == files_info[i].filename # files_info[i].orig

\* the record's filename is the name it was found with, followed by the first
\* 8 characters of its id, zero or more times
IdSuffixed(i) ==
    LET f == files_info[i].filename
        o == files_info[i].orig
    IN /\ f.stem = o.stem
       /\ f.ext = o.ext
       /\ Len(f.sfx) >= Len(o.sfx)
       /\ \A k \in 1..Len(f.sfx) :
            f.sfx[k] = IF k <= Len(o.sfx) THEN o.sfx[k]
                       ELSE Id8(files_info[i].id)

---------------------------------------------------------------------------
(* Properties of a run, under SpecRun *)

\* the pool is about to be started on the resolved records
PoolStarts == mpc = "submit" /\ nsub = 0

\* C4  Filename uniqueness: when the pool is started, no two records have the
\* same filename.
C4_UniqueFilenames ==
    PoolStarts =>
        \A i, j \in DOMAIN files_info :
            i # j => files_info[i].filename # files_info[j].filename

\* the earlier pass listed the whole tree and each of its transfers returned
\* DOWNLOADED or SKIPPED
PrevComplete ==
    /\ Len(prev) > 0
    /\ Len(prev) = Cardinality({k \in DOMAIN remote : remote[k].t = "file"})
    /\ \A i \in DOMAIN prev : prev[i].result \in {"DOWNLOADED", "SKIPPED"}

\* this pass resolved the records the earlier pass resolved
SameRecords ==
    /\ DOMAIN task = DOMAIN prev
    /\ DOMAIN files_info = DOMAIN prev
    /\ \A i \in DOMAIN prev :
        /\ files_info[i].orig = prev[i].orig
        /\ files_info[i].id = prev[i].id

\* C1  Idempotence: in the pass that follows a pass whose transfers all ended
\* DOWNLOADED or SKIPPED, and that is not cancelled, no file request is made
\* and every transfer returns SKIPPED.
C1_SecondPassSkipsAll ==
    (pass = 2 /\ ~stop /\ PrevComplete /\ SameRecords) =>
        \A i \in Records :
            /\ dl[i].nreq = 0
            /\ task[i] = "done" => dl[i].result = "SKIPPED"

---------------------------------------------------------------------------
(* Properties of the pool's shutdown, under Spec *)

\* no record is taken by a worker in this step
NoDispatch ==
    \A i \in Records : task'[i] = "running" => task[i] = "running"

\* _threaded_downloads returns only when no transfer is running or queued
ReturnsDrained == mpc = "returned" => (Running = {} /\ Queued = {})

\* C11  Graceful drain, as stated: from the moment the main thread has seen the
\* stop flag set (the polling loop is left) no record is taken by a worker, and
\* _threaded_downloads does not return while a transfer is running.
C11_NoDispatchOnceSeen ==
    /\ []ReturnsDrained
    /\ [][(stop /\ mpc \in {"shutdown", "join", "returned"}) => NoDispatch]_vars

\* C11  Graceful drain, as the code has it: no record is taken by a worker once
\* the executor was shut down with the flag set; a record taken between the
\* polling loop's end and the shutdown makes no request and returns FAILED at
\* its entry; and _threaded_downloads does not return while a transfer is
\* running.
C11_DrainAfterShutdown ==
    /\ []ReturnsDrained
    /\ [][(stop /\ mpc \in {"join", "returned"}) => NoDispatch]_vars
    /\ [][\A i \in Records :
            (stop /\ mpc = "shutdown" /\ task[i] = "running"
                  /\ dl[i].pc = "entry" /\ dl'[i] # dl[i]) =>
                /\ task'[i] = "done"
                /\ dl'[i].result = "FAILED"
                /\ dl'[i].nreq = 0
                /\ disk' = disk]_vars

\* the pool has returned after a cancellation: a queued record was cancelled
\* and a transfer that was running was waited for
C11_Witness ==
    /\ stop
    /\ mpc = "returned"
    /\ \E i \in Records : task[i] = "cancelled"
    /\ \E i \in Records :
        task[i] = "done" /\ dl[i].result = "FAILED" /\ dl[i].nreq >= 1

---------------------------------------------------------------------------
(* Properties of the single-file redirection, under SpecRun *)

\* the resolution has ended with one record, and the Singles folder holds a
\* file of its filename
SingleCollides ==
    /\ mpc = "resolve"
    /\ rpc = "done"
    /\ Len(files_info) = 1
    /\ Exists(disk, FileKey(SinglesDir, files_info[1].filename))

\* the pool works on the one record of a tree, renamed for such a file
SingleRenamed ==
    /\ mpc \in {"submit", "poll", "shutdown", "join", "returned"}
    /\ Len(files_info) = 1
    /\ files_info[1].path = SinglesDir
    /\ files_info[1].filename # files_info[1].orig

\* the file of the Singles folder that has the name the record was found with
\* is as it was
OrigKept ==
    LET k == FileKey(SinglesDir, files_info[1].orig) IN
    /\ Exists(disk', k) = Exists(disk, k)
    /\ SizeOf(disk', k) = SizeOf(disk, k)

\* C12  Single-file collision: the one record of a tree whose filename is that
\* of a file in the Singles folder is renamed to "<stem> (<id8>)<ext>" before
\* the pool is started, and no step of that pool changes the file that was
\* there.
C12_SingleCollision ==
    [][/\ (SingleCollides /\ mpc' = "submit") =>
              /\ files_info'[1].path = SinglesDir
              /\ files_info'[1].filename =
                     WithIdSuffix(files_info[1].filename, files_info[1].id)
              /\ OrigKept
       /\ (SingleRenamed /\ files_info' = files_info) => OrigKept]_vars

\* the renamed record was downloaded next to the file that was there
C12_Witness ==
    /\ SingleRenamed
    /\ task[1] = "done"
    /\ dl[1].result = "DOWNLOADED"
    /\ Exists(disk, FileKey(SinglesDir, files_info[1].orig))
    /\ disk[FileKey(SinglesDir, files_info[1].orig)] = 0
    /\ disk[FilePath(1)] = TotalChunks

---------------------------------------------------------------------------
(* Properties of the resolver's error handling, under SpecResolve *)

IsFileToken(tok) == tok.t = "file"

\* the files the API has listed to this resolution, in order
ListedFiles == SelectSeq(SubSeq(remote, 1, rpos), IsFileToken)

\* every file listed is recorded, in order, with its name and its id
AllListedRecorded ==
    /\ Len(files_info) = Len(ListedFiles)
    /\ \A k \in DOMAIN files_info :
        /\ files_info[k].orig = ListedFiles[k].name
        /\ Id8(files_info[k].id) = ListedFiles[k].pre

\* the fetch of a node fails in this step
FetchFails == rpos' = rpos + 1 /\ remote'[rpos'].t = "lost"

\* C13  Resolution errors are local: a node whose fetch fails adds no record
\* and takes none away, the listing of the folder that holds it goes on with
\* the next child, and every file listed before or after it is recorded.
C13_ErrorsLocal ==
    /\ [](rpc \in {"walk", "done"} => AllListedRecorded)
    /\ [][FetchFails =>
            /\ Len(files_info') = Len(files_info)
            /\ rpc = "walk" => (rpc' = "walk" /\ stack' = stack)]_vars

\* a resolution is over in which a sub-folder's fetch failed and a file listed
\* after it was recorded
C13_Witness ==
    /\ rpc = "done"
    /\ \E p, q \in 1..rpos :
        /\ p < q
        /\ p > 1
        /\ remote[p].t = "lost"
        /\ remote[q].t = "file"
    /\ AllListedRecorded
    /\ Len(files_info) >= 1

---------------------------------------------------------------------------
(* Properties of the engine's retries, under Spec *)

\* C14  Fatal status: after a 403, 404, 410 or 451 on a link no further file
\* request is sent on that link: no request is in flight while the error type
\* recorded on the current link is FATAL.
C14_FatalAbortsLink ==
    \A i \in Records :
        dl[i].last_error_type = "FATAL" => dl[i].pc # "inflight"

\* the step starts the record's next attempt on the same link
NextSameLinkAttempt(i) ==
    /\ dl[i].attempt >= 1
    /\ dl'[i].pc = "attempt"
    /\ dl'[i].attempt = dl[i].attempt + 1

\* C15  Backoff: the next attempt on the same link starts out of a wait: the
\* backoff wait of 2^attempt seconds, whatever made the attempt fail (or the
\* fixed wait that follows a 416).
C15_BackoffBetweenAttempts ==
    [][\A i \in Records :
          NextSameLinkAttempt(i) => dl[i].pc \in {"backoff", "wait416"}]_vars

\* the record's invocation is in one of its waits
Waiting(i) ==
    task[i] = "running" /\ dl[i].pc \in {"backoff", "wait416", "cooldown"}

\* C16  Interruptible waits: a wait (backoff, the wait after a 416, the
\* cooldown on an identical link) that ends with the stop flag set ends the
\* invocation: it returns FAILED and has made no further file request and no
\* further link refresh.
C16_WaitsInterruptible ==
    [][\A i \in Records :
          (stop /\ Waiting(i) /\ dl'[i] # dl[i]) =>
              /\ dl'[i].pc = "done"
              /\ dl'[i].result = "FAILED"
              /\ dl'[i].nreq = dl[i].nreq
              /\ dl'[i].nref = dl[i].nref
              /\ disk' = disk]_vars

\* an invocation returned FAILED out of a wait: with the flag set, after fewer
\* requests than one link allows, no refresh and no stream opened
C16_Witness ==
    /\ stop
    /\ \E i \in Records :
        /\ task[i] = "done"
        /\ dl[i].result = "FAILED"
        /\ dl[i].nreq \in {1, 2}
        /\ dl[i].nref = 0
        /\ dl[i].p0 = -1
        /\ ~Exists(disk, TmpFile(i))

\* C17  Identical refreshed link: when a refresh returns the link in use, the
\* invocation goes into the cooldown if the error type recorded is TRANSIENT,
\* and after the cooldown (not cancelled) starts the attempts on that link
\* again; with any other error type, or none, it returns FAILED with no
\* further file request.
C17_IdenticalLink ==
    [][\A i \in Records :
          /\ DcRefreshWith(i, dl[i].current_url) =>
                IF dl[i].last_error_type = "TRANSIENT"
                THEN /\ dl'[i].pc = "cooldown"
                     /\ dl'[i].current_url = dl[i].current_url
                     /\ dl'[i].nreq = dl[i].nreq
                ELSE /\ dl'[i].pc = "done"
                     /\ dl'[i].result = "FAILED"
                     /\ dl'[i].nreq = dl[i].nreq
          /\ (task[i] = "running" /\ dl[i].pc = "cooldown" /\ ~stop
                /\ dl'[i] # dl[i]) =>
                /\ dl'[i].pc = "attempt"
                /\ dl'[i].attempt = 1
                /\ dl'[i].current_url = dl[i].current_url]_vars

\* after three requests on the first link and one refresh that returned it
\* again, the attempts on it have started again
C17_Witness ==
    \E i \in Records :
        /\ dl[i].pc = "inflight"
        /\ dl[i].nref = 1
        /\ dl[i].nreq = 4
        /\ dl[i].current_url = files_info[i].link

\* a 200 without Content-Length
Faulty200 == [kind |-> "http", status |-> 200, has_size |-> FALSE]

\* the step is the arrival of such a response to a request without a range
FaultyAnswer(i) == DcResponseWith(i, Faulty200) /\ dl[i].part_size = 0

\* C18  Faulty node, as stated: a 200 without a size is recorded as UNKNOWN
\* (so that an identical refreshed link ends the invocation).
C18_FaultyIsUnknown ==
    [][\A i \in Records :
          (FaultyAnswer(i) /\ dl'[i].pc # "done") =>
              dl'[i].last_error_type = "UNKNOWN"]_vars

\* C18  Faulty node, as the code has it: a 200 without a size, answering a
\* request without a range, is recorded as TRANSIENT; before the third attempt
\* it is followed by the backoff and another attempt on the same link, at the
\* third by a link refresh (or FAILED after the second refresh); and a refresh
\* that then returns the identical link leads to the cooldown and to further
\* attempts, not to FAILED.
C18_FaultyIsTransient ==
    [][\A i \in Records :
          /\ FaultyAnswer(i) =>
                /\ disk' = disk
                /\ dl'[i].nreq = dl[i].nreq
                /\ IF dl[i].attempt < 3
                   THEN /\ dl'[i].pc = "backoff"
                        /\ dl'[i].last_error_type = "TRANSIENT"
                        /\ dl'[i].current_url = dl[i].current_url
                   ELSE IF dl[i].refresh_attempt < 2
                   THEN /\ dl'[i].pc = "refresh"
                        /\ dl'[i].last_error_type = "TRANSIENT"
                   ELSE /\ dl'[i].pc = "done"
                        /\ dl'[i].result = "FAILED"
          /\ (dl[i].status_code = 200 /\ dl[i].last_error_type = "TRANSIENT"
                /\ DcRefreshWith(i, dl[i].current_url)) =>
                dl'[i].pc = "cooldown"]_vars

\* a cooldown on an identical link after three requests whose last answer was
\* a 200 and of which none opened a stream
C18_Witness ==
    \E i \in Records :
        /\ dl[i].pc = "cooldown"
        /\ dl[i].status_code = 200
        /\ dl[i].nreq = 3
        /\ dl[i].p0 = -1
        /\ ~Exists(disk, TmpFile(i))

\* the link in use changes in this step
LinkChanges(i) ==
    /\ dl[i].pc \notin {"idle", "entry", "done"}
    /\ dl'[i].pc # "done"
    /\ dl'[i].current_url # dl[i].current_url

\* C19  Adopting a fresh link: a refresh that returns another link makes it
\* the link in use and starts the attempts again at 1, with the marker as it
\* was; the link in use changes at no other step, so every later request goes
\* to it; and each request asks for the range that starts at the marker's
\* size.
C19_AdoptFreshLink ==
    [][\A i \in Records :
          /\ \A new_link \in Links \ {dl[i].current_url} :
                DcRefreshWith(i, new_link) =>
                    /\ dl'[i].current_url = new_link
                    /\ dl'[i].pc = "attempt"
                    /\ dl'[i].attempt = 1
                    /\ dl'[i].nlink = 0
                    /\ dl'[i].nreq = dl[i].nreq
                    /\ disk' = disk
          /\ LinkChanges(i) =>
                /\ dl[i].pc = "refresh"
                /\ dl'[i].current_url \in Links
          /\ DcRequest(i) =>
                /\ dl'[i].part_size = SizeOf(disk, TmpFile(i))
                /\ dl'[i].current_url = dl[i].current_url
                /\ dl'[i].nlink <= 3]_vars

\* on an adopted link, the third request resumes a marker written on the
\* first link
C19_Witness ==
    \E i \in Records :
        /\ dl[i].pc = "stream"
        /\ dl[i].current_url # files_info[i].link
        /\ dl[i].nref = 1
        /\ dl[i].nreq = 6
        /\ dl[i].nlink = 3
        /\ dl[i].p0 = -1
        /\ dl[i].part_size > 0
        /\ dl[i].status_code = 206

\* the answer 416 to a file request
Answer416 == [kind |-> "http", status |-> 416, has_size |-> FALSE]

\* C20  416 handling: the answer 416 deletes the marker and leaves the
\* recorded error type, the link and the attempt number as they were; the
\* wait that follows goes on to the next attempt number of the same link
\* while one of the 3 is left (to the end of the link otherwise, to Failed
\* if the flag is set); and the request that follows a 416 carries no byte
\* range.
C20_RangeNotSatisfiable ==
    [][\A i \in Records :
          /\ DcResponseWith(i, Answer416) =>
                /\ ~Exists(disk', TmpFile(i))
                /\ dl'[i].pc = "wait416"
                /\ dl'[i].last_error_type = dl[i].last_error_type
                /\ dl'[i].current_url = dl[i].current_url
                /\ dl'[i].attempt = dl[i].attempt
          /\ (DcWait416(i) /\ ~stop) =>
                /\ disk' = disk
                /\ dl'[i].nreq = dl[i].nreq
                /\ IF dl[i].attempt < max_retries_per_link
                   THEN /\ dl'[i].pc = "attempt"
                        /\ dl'[i].attempt = dl[i].attempt + 1
                        /\ dl'[i].current_url = dl[i].current_url
                        /\ dl'[i].last_error_type = dl[i].last_error_type
                   ELSE dl'[i].pc \in {"refresh", "done"}
          /\ (DcRequest(i) /\ dl[i].status_code = 416) =>
                /\ dl'[i].part_size = 0
                /\ ~Exists(disk, TmpFile(i))]_vars

\* the second request of a download whose first request was ranged and
\* answered 416: it is on the same link, as attempt 2, without a range
C20_Witness ==
    \E i \in Records :
        /\ dl[i].pc = "inflight"
        /\ dl[i].status_code = 416
        /\ dl[i].first_range > 0
        /\ dl[i].nreq = 2
        /\ dl[i].attempt = 2
        /\ dl[i].refresh_attempt = 0
        /\ dl[i].part_size = 0
        /\ dl[i].last_error_type = "NONE"

\* the attempt of the record ends in this step without the file completed
FailedAttempt(i) ==
    /\ DcResponse(i) \/ DcStreamEnd(i) \/ DcStreamError(i)
    /\ dl'[i].pc # "stream"
    /\ dl'[i].result # "DOWNLOADED"

\* the next thing the invocation does is to send a file request or to ask for
\* a fresh link, with no look at the flag before it
AboutToRequest(d) == d.pc \in {"attempt", "refresh"}

\* C21  No new attempt after cancellation: an attempt that fails with the
\* stop flag set is not followed by a file request or a link refresh: the
\* invocation returns, or goes to a wait that reads the flag.
C21_NoAttemptAfterStop ==
    [][\A i \in Records :
          (stop /\ FailedAttempt(i)) => ~AboutToRequest(dl'[i])]_vars

\* C22  Chunk-boundary stop check: an iteration of the chunk loop made with
\* the stop flag set writes nothing and returns FAILED, the marker being as
\* it was; one made with the flag clear appends one chunk to the marker; and
\* a marker grows in no other step.
C22_ChunkBoundaryStop ==
    [][\A i \in Records :
          /\ (DcChunk(i) /\ stop) =>
                /\ disk' = disk
                /\ dl'[i].pc = "done"
                /\ dl'[i].result = "FAILED"
                /\ task'[i] = "done"
          /\ (DcChunk(i) /\ ~stop /\ Exists(disk, TmpFile(i))) =>
                /\ disk'[TmpFile(i)] = disk[TmpFile(i)] + 1
                /\ dl'[i].pc = "stream"
          /\ SizeOf(disk', TmpFile(i)) > SizeOf(disk, TmpFile(i)) =>
                (DcChunk(i) /\ ~stop)]_vars

\* with no failing response given, a transfer that started without a marker
\* returned FAILED after its only request and left a marker of one chunk
C22_Witness ==
    /\ stop
    /\ budget.faults = PoolFaults
    /\ \E i \in Records :
        /\ dl[i].result = "FAILED"
        /\ dl[i].nreq = 1
        /\ dl[i].p0 = -1
        /\ Exists(disk, TmpFile(i))
        /\ disk[TmpFile(i)] = 1

---------------------------------------------------------------------------
(* Properties of the record indices, under SpecResolve *)

\* the greatest index recorded so far
MaxIndex(fi) ==
    IF Len(fi) = 0 THEN 0
    ELSE CHOOSE m \in {fi[k].index : k \in DOMAIN fi} :
             \A k \in DOMAIN fi : fi[k].index <= m

\* C23  Record indices: the records in the order of their insertion carry the
\* indices 1..n, n being the counter; they are the files listed, in the
\* depth-first order of the listing; and a step that adds a record adds one,
\* with the greatest index so far plus 1, and leaves the indices of the
\* others.
C23_RecordIndices ==
    /\ [](/\ recursive_files_index = Len(files_info)
          /\ \A k \in DOMAIN files_info : files_info[k].index = k
          /\ rpc \in {"walk", "done"} => AllListedRecorded)
    /\ [][Len(files_info') # Len(files_info) =>
            /\ Len(files_info') = Len(files_info) + 1
            /\ files_info'[Len(files_info')].index = MaxIndex(files_info) + 1
            /\ \A k \in DOMAIN files_info :
                   files_info'[k].index = files_info[k].index]_vars

\* a resolution is over that listed a file, then a sub-folder with a file in
\* it, then a file after the sub-folder
C23_Witness ==
    /\ rpc = "done"
    /\ Len(files_info) = 3
    /\ \E p, q, e, f \in 1..rpos :
        /\ 2 < p /\ p < q /\ q < e /\ e < f
        /\ remote[p - 1].t = "file"
        /\ remote[p].t = "dir"
        /\ remote[q].t = "file"
        /\ remote[e].t = "end"
        /\ remote[f].t = "file"
    /\ \A k \in 1..3 : files_info[k].index = k

---------------------------------------------------------------------------
(* Properties of the directories, under SpecRun *)

\* the record has been handed to the pool
Handed(i) == task[i] \in {"queued", "running", "done", "cancelled"}

\* C24  Target directory exists: the directory of every record handed to the
\* pool is on disk, from the submission on, and so when its transfer starts.
C24_TargetDirExists ==
    \A i \in Records : Handed(i) => files_info[i].path \in dirs

\* the transfer of a single file, redirected to the Singles folder, is at its
\* entry, the content directory having been removed
C24_Witness ==
    /\ Len(files_info) = 1
    /\ 1 \in Records
    /\ task[1] = "running"
    /\ dl[1].pc = "entry"
    /\ files_info[1].path = SinglesDir
    /\ files_info[1].rpath = ContentDir
    /\ ContentDir \notin dirs
    /\ SinglesDir \in dirs

---------------------------------------------------------------------------
(* Properties of the stop flag, under SpecLines *)

\* run's loop starts a pass in this step
PassStarts == mpc = "run" /\ mpc' = "parse"

\* _parse_url_or_file starts the download of a URL line in this step
LineStarts == input'.line = input.line + 1

\* C25  Stop flag is monotonic and run-wide: a step taken with the stop flag
\* set leaves it set, starts no download of a further URL line and starts no
\* pass of run.
C25_StopRunWide ==
    [][stop => (stop' /\ ~LineStarts /\ ~PassStarts)]_vars

\* the run is over with the flag set, in its first pass, a line of the input
\* file not having been gone through
C25_Witness ==
    /\ stop
    /\ mpc = "exit"
    /\ input.is_file
    /\ input.line = 1
    /\ input.lines = MaxLines
    /\ pass = 2

---------------------------------------------------------------------------
(* Properties of the deduplication, under SpecResolve *)

\* the records with the names the API listed them with
Originals ==
    [k \in DOMAIN files_info |->
        [files_info[k] EXCEPT !.filename = files_info[k].orig]]

\* the filenames of a tree that lists the same files in the same order in
\* one folder: the deduplication is then made once, on the listed names
FlatNames == [k \in DOMAIN files_info |-> Dedup(Originals)[k].filename]

\* C26  Dedup depends only on the final record set: when the resolution is
\* over, the filenames are those that the same files, listed in the same
\* order in a single folder, end with.
C26_DedupOfFinalSet ==
    rpc = "done" =>
        \A k \in DOMAIN files_info : files_info[k].filename = FlatNames[k]

---------------------------------------------------------------------------
(* Properties of the data on disk across passes, under SpecRun *)

\* the step is one of run, _parse_url_or_file or _download outside the pool,
\* the resolution included
OutsidePool == mpc \in {"run", "parse", "resolve"}

\* every file and marker on disk stays, with its size
DiskKept == \A k \in DOMAIN disk : k \in DOMAIN disk' /\ disk'[k] = disk[k]

\* C27  No loss of downloaded data across passes: no step of a resolution or
\* of a download outside its transfers takes a final file or a marker from
\* the disk, and no step at all takes a final file from it.
C27_NoDataLoss ==
    [][/\ OutsidePool => DiskKept
       /\ \A k \in DOMAIN disk : k[3] = "file" => k \in DOMAIN disk']_vars

---------------------------------------------------------------------------
(* Properties of the interrupt, under Spec *)

\* a transfer is running or queued in the pool
PoolBusy == Running # {} \/ Queued # {}

\* C28  Interrupts are never lost: an interrupt delivered while a transfer is
\* running or queued sets the stop flag and does not take the control out of
\* _threaded_downloads; and _threaded_downloads is left only with no
\* transfer running or queued.
C28_InterruptNotLost ==
    /\ [][(TdInterrupt /\ PoolBusy) => (stop' /\ mpc' # "escaped")]_vars
    /\ [](mpc \in {"returned", "escaped"} => ~PoolBusy)

---------------------------------------------------------------------------
(* Termination, under SpecLive *)

\* the indices a record of the pool can have
RecordIds == 1..LiveRecords

\* the invocation for the record has returned one of the three results
Returned(i) ==
    /\ task[i] = "done"
    /\ dl[i].pc = "done"
    /\ dl[i].result \in {"DOWNLOADED", "SKIPPED", "FAILED"}

\* control has left _threaded_downloads
LeftPool == mpc \in {"returned", "escaped"}

\* C29  Termination: every invocation that was started returns one of
\* DOWNLOADED, SKIPPED and FAILED, and keeps it; and the control leaves
\* _threaded_downloads, which returns only when no transfer is running or
\* queued.
C29_Termination ==
    /\ \A i \in RecordIds :
          (i \in Records /\ task[i] = "running") ~> (i \in Records /\ Returned(i))
    /\ [][\A i \in Records : task[i] = "done" => dl'[i] = dl[i]]_vars
    /\ [](\A i \in Records : task[i] = "done" => Returned(i))
    /\ <>LeftPool
    /\ [](mpc = "returned" => (Running = {} /\ Queued = {}))

\* _threaded_downloads has returned, uninterrupted, after a transfer that
\* went through the two cool-downs and returned FAILED after 9 requests
C29_Witness ==
    /\ mpc = "returned"
    /\ ~stop
    /\ \A i \in Records : Returned(i)
    /\ \E i \in Records :
        /\ dl[i].result = "FAILED"
        /\ dl[i].nreq = 9
        /\ dl[i].nref = 2

====
